---- MODULE Spec2Model ----
(***************************************************************************)
(* The Nomad List scrapper: NomadListScrapper.scrap_cities drives          *)
(* grequests.imap over the city pages and stores every city's details      *)
(* with MySQLConnector.insert_city_info.                                   *)
(***************************************************************************)
EXTENDS Integers, Sequences, FiniteSets, TLC

VARIABLES
    db,         \* the MySQL tables: table name -> set of rows
    dbUp,       \* FALSE once the MySQL server is unreachable
    pc,         \* where scrap_cities is: "next", "persist", "returned", "done", "aborted"
    call,       \* the running (or last) insert_city_info call: details, step, ids, raised
    nUpdates,   \* UPDATE statements _upsert_and_get_id issued in this call
    written,    \* <<table, id>> of the rows this call inserted or changed
    beforeRec,  \* details of the call before this one (<<>> when none)
    beforeDb,   \* the tables when this call started
    nextRef,    \* index of the next li the request generator will look at
    inflight,   \* lis whose request is in the gevent pool, not yet completed
    queue,      \* completed requests imap has not handed out yet, oldest first
    total, successes, failures,   \* the counters of scrap_cities
    errors,     \* calls of _exception_handler
    skipped,    \* lis valid_tag rejected
    yielded,    \* results imap has yielded to the for loop
    empties,    \* results whose details were None
    returnedOk  \* insert_city_info calls that returned without raising

vars == <<db, dbUp, pc, call, nUpdates, written, beforeRec, beforeDb,
          nextRef, inflight, queue, total, successes, failures, errors, skipped,
          yielded, empties, returnedOk>>

storeVars == <<db, dbUp, call, nUpdates, written, beforeRec, beforeDb>>
fetchVars == <<nextRef, inflight, queue, errors, skipped>>
counters == <<total, successes, failures>>
histVars == <<yielded, empties, returnedOk>>

(***************************************************************************)
(* Bounds                                                                  *)
(***************************************************************************)
NumRefs == 3        \* lis on the home page
BatchSize == 2      \* cfg.NOMAD_LIST_REQUESTS_BATCH_SIZE
MaxCalls == 3       \* insert_city_info calls of a writer in SpecStore

(***************************************************************************)
(* Values                                                                  *)
(***************************************************************************)
None == "None"      \* Python None, SQL NULL in a text column
NullId == 0         \* SQL NULL in an integer column (ids and ranks start at 1)

Tables == {"continents", "countries", "cities", "tabs", "attributes",
           "city_attributes", "monthly_weathers_attributes", "photos",
           "pros_and_cons", "reviews", "cities_relationships"}

\* The unique index of each table (create_schemas.sql).
UniqueKey(table) ==
    CASE table = "continents" -> {"name"}
      [] table = "countries" -> {"name"}
      [] table = "cities" -> {"name"}
      [] table = "tabs" -> {"name"}
      [] table = "attributes" -> {"name", "id_tab"}
      [] table = "city_attributes" -> {"id_city", "id_attribute"}
      [] table = "monthly_weathers_attributes" -> {"id_city", "id_attribute", "month_number"}
      [] table = "photos" -> {"id_city", "src"}
      [] table = "pros_and_cons" -> {"id_city", "description", "type"}
      [] table = "reviews" -> {"id_city", "description"}
      [] table = "cities_relationships" -> {"id_city", "id_related_city", "type"}

(***************************************************************************)
(* Detail records (the dictionaries CityScrapper.get_city_details returns).*)
(* A tab is a sequence of <<attribute, info>> in dictionary order, info    *)
(* being <<description, value>> or <<description, value, url>>.            *)
(* ProsAndCons is <<>> for None, else <<[pros, cons]>>.                    *)
(***************************************************************************)
Lisbon ==
    [city |-> "Lisbon", continent |-> "Europe", country |-> "Portugal", rank |-> 1,
     Scores |-> << <<"Fun", <<"Great nightlife", 8>> >>,
                   <<"Cost", <<"Cheap", 5, "http://cost">> >> >>,
     DigitalNomadGuide |-> <<>>,
     CostOfLiving |-> << <<"Cost", <<"Beer", 2>> >> >>,
     Photos |-> <<"a.jpg">>,
     ProsAndCons |-> << [pros |-> <<"Sunny">>, cons |-> <<"Hilly">>] >>,
     Reviews |-> <<"Nice">>,
     Weather |-> << <<"Temp", << <<"Jan", 15, "mild">>, <<"Feb", 16, "mild">> >> >> >>,
     Near |-> <<"Porto">>, Next |-> <<>>, Similar |-> <<"Porto", "Faro">>]

\* Lisbon with one attribute of Scores changed
LisbonFun9 == [Lisbon EXCEPT !.Scores[1] = <<"Fun", <<"Even better", 9>> >>]

\* Lisbon with the attribute Cost missing from Scores
LisbonFunOnly == [Lisbon EXCEPT !.Scores = << <<"Fun", <<"Great nightlife", 8>> >> >>]

Porto ==
    [city |-> "Porto", continent |-> "Europe", country |-> "Portugal", rank |-> 2,
     Scores |-> << <<"Safety", <<"Safe", 7>> >>, <<"Fun", <<"Good", 6>> >> >>,
     DigitalNomadGuide |-> << <<"Tap water", <<"Drinkable", 1>> >> >>,
     CostOfLiving |-> <<>>,
     Photos |-> <<"a.jpg", "b.jpg", "a.jpg">>,
     ProsAndCons |-> << [pros |-> <<"Sunny">>, cons |-> <<>>] >>,
     Reviews |-> <<>>,
     Weather |-> <<>>,
     Near |-> <<"Lisbon">>, Next |-> <<"Lisbon">>, Similar |-> <<>>]

\* a city with no related cities
Faro ==
    [city |-> "Faro", continent |-> "Europe", country |-> "Portugal", rank |-> 3,
     Scores |-> << <<"Fun", <<"Quiet", 4>> >> >>,
     DigitalNomadGuide |-> <<>>, CostOfLiving |-> <<>>,
     Photos |-> <<>>,
     ProsAndCons |-> << [pros |-> <<>>, cons |-> <<>>] >>,
     Reviews |-> <<"Nice">>,
     Weather |-> <<>>,
     Near |-> <<>>, Next |-> <<>>, Similar |-> <<>>]

\* same country name under another continent
Funchal ==
    [city |-> "Funchal", continent |-> "Africa", country |-> "Portugal", rank |-> 1,
     Scores |-> <<>>, DigitalNomadGuide |-> <<>>, CostOfLiving |-> <<>>,
     Photos |-> <<>>,
     ProsAndCons |-> << [pros |-> <<>>, cons |-> <<"Far">>] >>,
     Reviews |-> <<>>,
     Weather |-> <<>>,
     Near |-> <<>>, Next |-> <<"Lisbon">>, Similar |-> <<>>]

\* a record whose ProsAndCons section is missing
Braga ==
    [city |-> "Braga", continent |-> "Europe", country |-> "Portugal", rank |-> 4,
     Scores |-> << <<"Fun", <<"Calm", 3>> >> >>,
     DigitalNomadGuide |-> <<>>, CostOfLiving |-> <<>>,
     Photos |-> <<"c.jpg">>,
     ProsAndCons |-> <<>>,
     Reviews |-> <<>>,
     Weather |-> <<>>,
     Near |-> <<"Porto">>, Next |-> <<>>, Similar |-> <<>>]

Records == {Lisbon, LisbonFun9, LisbonFunOnly, Porto, Faro, Funchal, Braga}

\* what the city pages of the fetch specification hold
PageRecords == {Porto, Braga}

(***************************************************************************)
(* MySQL statements                                                        *)
(***************************************************************************)
MaxId(rows) ==
    IF rows = {} THEN 0
    ELSE CHOOSE m \in {r.id : r \in rows} : \A r \in rows : r.id <= m

\* the row an INSERT adds: AUTO_INCREMENT id, columns not given are NULL
NewRow(rows, vals) == [id |-> MaxId(rows) + 1] @@ vals

SameOn(r, vals, cols) == \A c \in cols : r[c] = vals[c]

InsertPlain(rows, vals, ukey) == rows \cup {NewRow(rows, vals)}

\* INSERT IGNORE: a row that collides on the unique index is dropped
InsertIgnore(rows, vals, ukey) ==
    IF \E r \in rows : SameOn(r, vals, ukey)
    THEN rows
    ELSE rows \cup {NewRow(rows, vals)}

RECURSIVE InsertIgnoreMany(_, _, _)
\* cursor.executemany of an INSERT IGNORE
InsertIgnoreMany(rows, seq, ukey) ==
    IF seq = <<>> THEN rows
    ELSE InsertIgnoreMany(InsertIgnore(rows, Head(seq), ukey), Tail(seq), ukey)

\* REPLACE INTO: the colliding row is deleted and a new one inserted
InsertReplace(rows, vals, ukey, cols) ==
    LET kept == {r \in rows : ~SameOn(r, vals, ukey)}
    IN  kept \cup {NewRow(rows, vals)}

\* INSERT ... ON DUPLICATE KEY UPDATE cols = new.cols
InsertOnDuplicateKeyUpdate(rows, vals, ukey, cols) ==
    IF \E r \in rows : SameOn(r, vals, ukey)
    THEN LET old == CHOOSE r \in rows : SameOn(r, vals, ukey)
         IN (rows \ {old}) \cup
            {[c \in DOMAIN old |-> IF c \in cols THEN vals[c] ELSE old[c]]}
    ELSE rows \cup {NewRow(rows, vals)}

RECURSIVE InsertOnDuplicateKeyUpdateMany(_, _, _, _)
InsertOnDuplicateKeyUpdateMany(rows, seq, ukey, cols) ==
    IF seq = <<>> THEN rows
    ELSE InsertOnDuplicateKeyUpdateMany(
             InsertOnDuplicateKeyUpdate(rows, Head(seq), ukey, cols),
             Tail(seq), ukey, cols)

RECURSIVE SortById(_)
\* the rows of a SELECT, in primary key order
SortById(rows) ==
    IF rows = {} THEN <<>>
    ELSE LET first == CHOOSE r \in rows : \A o \in rows : r.id <= o.id
         IN <<first>> \o SortById(rows \ {first})

(***************************************************************************)
(* Python helpers                                                          *)
(***************************************************************************)
RECURSIVE Get(_, _)
\* tab_info.get(attribute): <<>> stands for a missing key
Get(tab_info, attribute) ==
    IF tab_info = <<>> THEN <<>>
    ELSE IF Head(tab_info)[1] = attribute THEN Head(tab_info)[2]
    ELSE Get(Tail(tab_info), attribute)

Keys(tab_info) == [i \in 1..Len(tab_info) |-> tab_info[i][1]]

Range(seq) == {seq[i] : i \in 1..Len(seq)}

RECURSIVE Concat(_)
Concat(seqs) == IF seqs = <<>> THEN <<>> ELSE Head(seqs) \o Concat(Tail(seqs))

\* the orders in which list(set(...)) may enumerate a set
Orders(S) == {f \in [1..Cardinality(S) -> S] : Range(f) = S}

(***************************************************************************)
(* MySQLConnector                                                          *)
(***************************************************************************)
UpsertAndGetIdKeepStored(d, table, values_dict, domain_identifier) ==
    LET found == {r \in d[table] : SameOn(r, values_dict, domain_identifier)}
    IN  IF found # {}
        THEN LET result == CHOOSE r \in found : \A o \in found : r.id <= o.id
             IN [db |-> d, id |-> result.id, updated |-> FALSE]
        ELSE LET rows == InsertIgnore(d[table], values_dict, UniqueKey(table))
             IN [db |-> [d EXCEPT ![table] = rows],
                 id |-> IF rows = d[table] THEN 0 ELSE MaxId(rows),
                 updated |-> FALSE]

UpsertAndGetIdAllColumns(d, table, values_dict, domain_identifier) ==
    LET found == {r \in d[table] : SameOn(r, values_dict, DOMAIN values_dict)}
    IN  IF found # {}
        THEN LET result == CHOOSE r \in found : \A o \in found : r.id <= o.id
             IN [db |-> d, id |-> result.id, updated |-> FALSE]
        ELSE LET rows == InsertIgnore(d[table], values_dict, UniqueKey(table))
             IN [db |-> [d EXCEPT ![table] = rows],
                 id |-> IF rows = d[table] THEN 0 ELSE MaxId(rows),
                 updated |-> FALSE]

UpsertAndGetIdKeyCompared(d, table, values_dict, domain_identifier) ==
    LET found == {r \in d[table] : SameOn(r, values_dict, domain_identifier)}
    IN  IF found # {}
        THEN LET result == CHOOSE r \in found : \A o \in found : r.id <= o.id
                 differences == {c \in domain_identifier : result[c] # values_dict[c]}
             IN [db |-> IF differences # {}
                        THEN [d EXCEPT ![table] =
                                 (@ \ {result}) \cup {[id |-> result.id] @@ values_dict}]
                        ELSE d,
                 id |-> result.id,
                 updated |-> differences # {}]
        ELSE LET rows == InsertIgnore(d[table], values_dict, UniqueKey(table))
             IN [db |-> [d EXCEPT ![table] = rows],
                 id |-> IF rows = d[table] THEN 0 ELSE MaxId(rows),
                 updated |-> FALSE]

UpsertAndGetIdAlwaysUpdate(d, table, values_dict, domain_identifier) ==
    LET found == {r \in d[table] : SameOn(r, values_dict, domain_identifier)}
    IN  IF found # {}
        THEN LET result == CHOOSE r \in found : \A o \in found : r.id <= o.id
             IN [db |-> [d EXCEPT ![table] =
                            (@ \ {result}) \cup {[id |-> result.id] @@ values_dict}],
                 id |-> result.id,
                 updated |-> TRUE]
        ELSE LET rows == InsertIgnore(d[table], values_dict, UniqueKey(table))
             IN [db |-> [d EXCEPT ![table] = rows],
                 id |-> IF rows = d[table] THEN 0 ELSE MaxId(rows),
                 updated |-> FALSE]

\* _upsert_and_get_id: select by the domain identifier; UPDATE when a column
\* differs; INSERT IGNORE when no row was found. lastrowid is 0 when the
\* insert was ignored.
UpsertAndGetId(d, table, values_dict, domain_identifier) ==
    LET found == {r \in d[table] : SameOn(r, values_dict, domain_identifier)}
    IN  IF found # {}
        THEN LET result == CHOOSE r \in found : \A o \in found : r.id <= o.id
                 differences == {c \in DOMAIN values_dict : result[c] # values_dict[c]}
             IN [db |-> IF differences # {}
                        THEN [d EXCEPT ![table] =
                                 (@ \ {result}) \cup {[id |-> result.id] @@ values_dict}]
                        ELSE d,
                 id |-> result.id,
                 updated |-> differences # {}]
        ELSE LET rows == InsertIgnore(d[table], values_dict, UniqueKey(table))
             IN [db |-> [d EXCEPT ![table] = rows],
                 id |-> IF rows = d[table] THEN 0 ELSE MaxId(rows),
                 updated |-> FALSE]

\* _upsert_tab_and_attributes: the tab row, one attribute row per key of
\* tab_info, then every attribute row of the tab
UpsertTabAndAttributes(d, tab_name, tab_info) ==
    LET tabs == InsertIgnore(d.tabs, [name |-> tab_name], UniqueKey("tabs"))
        id_tab == (CHOOSE r \in tabs : r.name = tab_name).id
        values == [i \in 1..Len(tab_info) |-> [name |-> Keys(tab_info)[i], id_tab |-> id_tab]]
        attrs == InsertIgnoreMany(d.attributes, values, UniqueKey("attributes"))
    IN  [db |-> [d EXCEPT !.tabs = tabs, !.attributes = attrs],
         attributes |-> SortById({r \in attrs : r.id_tab = id_tab})]

CityAttributeValuesOfEveryAttribute(id_city, attributes, tab_info) ==
    [i \in 1..Len(attributes) |->
        LET info == Get(tab_info, attributes[i].name)
        IN [id_city |-> id_city, id_attribute |-> attributes[i].id,
            description |-> IF info = <<>> THEN None ELSE info[1],
            attribute_value |-> IF info = <<>> THEN None ELSE info[2],
            url |-> IF Len(info) > 2 THEN info[3] ELSE None]]

\* lines 189-190: one tuple per attribute of the tab that tab_info names
CityAttributeValues(id_city, attributes, tab_info) ==
    LET Named(a) == Get(tab_info, a.name) # <<>>
        kept == SelectSeq(attributes, Named)
    IN  [i \in 1..Len(kept) |->
            LET info == Get(tab_info, kept[i].name)
            IN [id_city |-> id_city, id_attribute |-> kept[i].id,
                description |-> info[1], attribute_value |-> info[2],
                url |-> IF Len(info) > 2 THEN info[3] ELSE None]]

UpsertKeyValueTabInfoInsertOnly(d, id_city, tab_name, tab_info) ==
    LET up == UpsertTabAndAttributes(d, tab_name, tab_info)
        values == CityAttributeValues(id_city, up.attributes, tab_info)
    IN  [up.db EXCEPT !.city_attributes =
            InsertIgnoreMany(@, values, UniqueKey("city_attributes"))]

\* _upsert_key_value_tab_info
UpsertKeyValueTabInfo(d, id_city, tab_name, tab_info) ==
    LET up == UpsertTabAndAttributes(d, tab_name, tab_info)
        values == CityAttributeValues(id_city, up.attributes, tab_info)
    IN  [up.db EXCEPT !.city_attributes =
            InsertOnDuplicateKeyUpdateMany(@, values, UniqueKey("city_attributes"),
                                           {"description", "attribute_value", "url"})]

\* _upsert_weather
UpsertWeather(d, id_city, details) ==
    LET tab_info == details.Weather
        up == UpsertTabAndAttributes(d, "Weather", tab_info)
        values == Concat([k \in 1..Len(up.attributes) |->
                    LET months == Get(tab_info, up.attributes[k].name)
                    IN [i \in 1..Len(months) |->
                          [id_city |-> id_city, id_attribute |-> up.attributes[k].id,
                           month_number |-> i,
                           attribute_value |-> months[i][2],
                           description |-> months[i][3]]]])
    IN  [up.db EXCEPT !.monthly_weathers_attributes =
            InsertOnDuplicateKeyUpdateMany(@, values,
                UniqueKey("monthly_weathers_attributes"),
                {"attribute_value", "description"})]

\* _upsert_many: values is a sequence of tuples, one value per column
UpsertMany(d, table, id_city, columns, values) ==
    LET rows == [i \in 1..Len(values) |->
                    [id_city |-> id_city] @@
                    [c \in Range(columns) |->
                        values[i][CHOOSE j \in 1..Len(columns) : columns[j] = c]]]
    IN  [d EXCEPT ![table] = InsertIgnoreMany(@, rows, UniqueKey(table))]

types == <<"Near", "Next", "Similar">>

\* the names of line 258, before list(set(...)) orders them
RelatedNames(details) == Range(details.Near \o details.Next \o details.Similar)

RelationshipsOfEveryType(id_city, selected, details) ==
    Concat([k \in 1..Len(selected) |->
        [i \in 1..Len(types) |->
            [id_city |-> id_city, id_related_city |-> selected[k].id, type |-> i - 1]]])

\* lines 277-281: one (id_city, id_related, i) per selected city and type
\* whose list names the city
Relationships(id_city, selected, details) ==
    Concat([k \in 1..Len(selected) |->
        Concat([i \in 1..Len(types) |->
            IF selected[k].name \in Range(details[types[i]])
            THEN << [id_city |-> id_city, id_related_city |-> selected[k].id,
                     type |-> i - 1] >>
            ELSE <<>>])])

InsertRelationshipsOverwriting(d, id_city, details, cities) ==
    IF cities = <<>>
    THEN [db |-> d, raised |-> "ProgrammingError"]
    ELSE LET bare == [i \in 1..Len(cities) |->
                        [name |-> cities[i], city_rank |-> NullId, id_country |-> NullId]]
             rows == InsertOnDuplicateKeyUpdateMany(d.cities, bare, UniqueKey("cities"),
                                                    {"city_rank", "id_country"})
             selected == SortById({r \in rows : r.name \in Range(cities)})
             relationships == Relationships(id_city, selected, details)
         IN [db |-> [d EXCEPT !.cities = rows,
                              !.cities_relationships =
                                  InsertIgnoreMany(@, relationships,
                                                   UniqueKey("cities_relationships"))],
             raised |-> "none"]

\* _insert_relationships, cities being list(set(...)) in the order the set
\* gave. With no city the SELECT reads "WHERE name IN ()", a syntax error.
InsertRelationships(d, id_city, details, cities) ==
    IF cities = <<>>
    THEN [db |-> d, raised |-> "ProgrammingError"]
    ELSE LET bare == [i \in 1..Len(cities) |->
                        [name |-> cities[i], city_rank |-> NullId, id_country |-> NullId]]
             rows == InsertIgnoreMany(d.cities, bare, UniqueKey("cities"))
             selected == SortById({r \in rows : r.name \in Range(cities)})
             relationships == Relationships(id_city, selected, details)
         IN [db |-> [d EXCEPT !.cities = rows,
                              !.cities_relationships =
                                  InsertIgnoreMany(@, relationships,
                                                   UniqueKey("cities_relationships"))],
             raised |-> "none"]

StepsPhotosFirst ==
    <<"photos", "continents", "countries", "cities", "Scores", "Digital Nomad Guide",
      "Cost of Living", "pros_and_cons", "reviews", "weather", "relationships">>

\* the statements of insert_city_info, in order
Steps == <<"continents", "countries", "cities", "Scores", "Digital Nomad Guide",
           "Cost of Living", "photos", "pros_and_cons", "reviews", "weather",
           "relationships">>

NoIds == [id_continent |-> NullId, id_country |-> NullId, id_city |-> NullId]

Wrap(seq) == [i \in 1..Len(seq) |-> <<seq[i]>>]

\* one statement of insert_city_info before the relationships:
\* the tables after it, the ids it has, what it raised
Step(name, d, ids, details) ==
    CASE name = "continents" ->
            LET u == UpsertAndGetId(d, "continents", [name |-> details.continent], {"name"})
            IN [db |-> u.db, ids |-> [ids EXCEPT !.id_continent = u.id],
                raised |-> "none", updated |-> u.updated]
      [] name = "countries" ->
            LET u == UpsertAndGetId(d, "countries",
                        [name |-> details.country, id_continent |-> ids.id_continent],
                        {"name"})
            IN [db |-> u.db, ids |-> [ids EXCEPT !.id_country = u.id],
                raised |-> "none", updated |-> u.updated]
      [] name = "cities" ->
            LET u == UpsertAndGetId(d, "cities",
                        [name |-> details.city, city_rank |-> details.rank,
                         id_country |-> ids.id_country],
                        {"name"})
            IN [db |-> u.db, ids |-> [ids EXCEPT !.id_city = u.id],
                raised |-> "none", updated |-> u.updated]
      [] name = "Scores" ->
            [db |-> UpsertKeyValueTabInfo(d, ids.id_city, "Scores", details.Scores),
             ids |-> ids, raised |-> "none", updated |-> FALSE]
      [] name = "Digital Nomad Guide" ->
            [db |-> UpsertKeyValueTabInfo(d, ids.id_city, "Digital Nomad Guide",
                                          details.DigitalNomadGuide),
             ids |-> ids, raised |-> "none", updated |-> FALSE]
      [] name = "Cost of Living" ->
            [db |-> UpsertKeyValueTabInfo(d, ids.id_city, "Cost of Living",
                                          details.CostOfLiving),
             ids |-> ids, raised |-> "none", updated |-> FALSE]
      [] name = "photos" ->
            [db |-> UpsertMany(d, "photos", ids.id_city, <<"src">>, Wrap(details.Photos)),
             ids |-> ids, raised |-> "none", updated |-> FALSE]
      [] name = "pros_and_cons" ->
            IF details.ProsAndCons = <<>>
            THEN [db |-> d, ids |-> ids, raised |-> "AttributeError", updated |-> FALSE]
            ELSE LET pros_and_cons == details.ProsAndCons[1]
                     pros == [i \in 1..Len(pros_and_cons.pros) |-> <<pros_and_cons.pros[i], "P">>]
                     cons == [i \in 1..Len(pros_and_cons.cons) |-> <<pros_and_cons.cons[i], "C">>]
                 IN [db |-> UpsertMany(d, "pros_and_cons", ids.id_city,
                                       <<"description", "type">>, pros \o cons),
                     ids |-> ids, raised |-> "none", updated |-> FALSE]
      [] name = "reviews" ->
            [db |-> UpsertMany(d, "reviews", ids.id_city, <<"description">>,
                               Wrap(details.Reviews)),
             ids |-> ids, raised |-> "none", updated |-> FALSE]
      [] name = "weather" ->
            [db |-> UpsertWeather(d, ids.id_city, details),
             ids |-> ids, raised |-> "none", updated |-> FALSE]

(***************************************************************************)
(* State machine                                                           *)
(***************************************************************************)
NoCall == [details |-> <<>>, step |-> 1, ids |-> NoIds, raised |-> "none"]

EmptyDb == [t \in Tables |-> {}]

Init ==
    /\ db = EmptyDb
    /\ dbUp = TRUE
    /\ pc = "next"
    /\ call = NoCall
    /\ nUpdates = 0
    /\ written = {}
    /\ beforeRec = <<>>
    /\ beforeDb = EmptyDb
    /\ nextRef = 1
    /\ inflight = {}
    /\ queue = <<>>
    /\ total = 0
    /\ successes = 0
    /\ failures = 0
    /\ errors = 0
    /\ skipped = 0
    /\ yielded = 0
    /\ empties = 0
    /\ returnedOk = 0

\* the rows of `after` that are new or differ from `before`
Changed(before, after) ==
    UNION {{<<t, r.id>> : r \in after[t] \ before[t]} : t \in Tables}

\* insert_city_info(details) is entered
StartInsert(details) ==
    /\ pc' = "persist"
    /\ call' = [details |-> <<details>>, step |-> 1, ids |-> NoIds, raised |-> "none"]
    /\ nUpdates' = 0
    /\ written' = {}
    /\ beforeRec' = call.details
    /\ beforeDb' = db
    /\ UNCHANGED <<db, dbUp>>

RaiseAndRollBack(exc) ==
    /\ pc' = "returned"
    /\ call' = [call EXCEPT !.raised = exc]
    /\ db' = beforeDb
    /\ written' = {}
    /\ UNCHANGED <<dbUp, nUpdates, beforeRec, beforeDb, returnedOk>>

\* insert_city_info leaves with an exception
Raise(exc) ==
    /\ pc' = "returned"
    /\ call' = [call EXCEPT !.raised = exc]
    /\ UNCHANGED <<db, dbUp, nUpdates, written, beforeRec, beforeDb, returnedOk>>

\* lines 291-315: the next statement of insert_city_info
InsertCityInfoStep ==
    /\ pc = "persist"
    /\ call.step < Len(Steps)
    /\ LET r == Step(Steps[call.step], db, call.ids, call.details[1])
       IN  IF r.raised = "AttributeError" THEN Raise(r.raised)
           ELSE IF ~dbUp THEN Raise("OperationalError")
           ELSE /\ db' = r.db
                /\ call' = [call EXCEPT !.step = @ + 1, !.ids = r.ids]
                /\ nUpdates' = nUpdates + (IF r.updated THEN 1 ELSE 0)
                /\ written' = written \cup Changed(db, r.db)
                /\ UNCHANGED <<dbUp, pc, beforeRec, beforeDb, returnedOk>>
    /\ UNCHANGED <<fetchVars, counters, yielded, empties>>

\* line 317: _insert_relationships, the last statement
InsertRelationshipsStep ==
    /\ pc = "persist"
    /\ call.step = Len(Steps)
    /\ \E cities \in Orders(RelatedNames(call.details[1])) :
          LET r == InsertRelationships(db, call.ids.id_city, call.details[1], cities)
          IN  IF ~dbUp THEN Raise("OperationalError")
              ELSE IF r.raised # "none" THEN Raise(r.raised)
              ELSE /\ db' = r.db
                   /\ call' = [call EXCEPT !.step = @ + 1]
                   /\ written' = written \cup Changed(db, r.db)
                   /\ pc' = "returned"
                   /\ returnedOk' = returnedOk + 1
                   /\ UNCHANGED <<dbUp, nUpdates, beforeRec, beforeDb>>
    /\ UNCHANGED <<fetchVars, counters, yielded, empties>>

\* the MySQL server goes away while a city is being stored (an outage between
\* two calls shows at the first statement of the next call)
StorageOutage ==
    /\ pc = "persist"
    /\ dbUp
    /\ dbUp' = FALSE
    /\ UNCHANGED <<db, pc, call, nUpdates, written, beforeRec, beforeDb,
                   fetchVars, counters, histVars>>

ExceptClauseNoStorage(exc) ==
    IF exc = "HTTPError" THEN "except HTTPError"
    ELSE IF exc \in {"ExtractionError", "AttributeError", "ProgrammingError"}
    THEN "except Exception"
    ELSE "uncaught"

\* lines 135-140: the except clause that takes an exception
ExceptClause(exc) ==
    IF exc = "HTTPError" THEN "except HTTPError"
    ELSE IF exc \in {"ExtractionError", "AttributeError", "ProgrammingError",
                     "OperationalError"}
    THEN "except Exception"
    ELSE "uncaught"

HandleWithoutCounting(exc) ==
    /\ total' = total + 1
    /\ successes' = successes
    /\ IF ExceptClause(exc) = "uncaught"
       THEN /\ failures' = failures
            /\ pc' = "aborted"
       ELSE /\ failures' = (IF exc = "HTTPError" THEN failures ELSE failures + 1)
            /\ pc' = "next"

\* lines 135-142: the except clauses and finally of the loop body
Handle(exc) ==
    /\ total' = total + 1
    /\ successes' = successes
    /\ IF ExceptClause(exc) = "uncaught"
       THEN /\ failures' = failures
            /\ pc' = "aborted"
       ELSE /\ failures' = failures + 1
            /\ pc' = "next"

AfterInsertSuccessFirst ==
    /\ pc = "returned"
    /\ successes' = successes + 1
    /\ total' = total + 1
    /\ IF call.raised = "none"
       THEN failures' = failures /\ pc' = "next"
       ELSE /\ failures' = failures + 1
            /\ pc' = IF ExceptClause(call.raised) = "uncaught" THEN "aborted" ELSE "next"
    /\ UNCHANGED <<storeVars, fetchVars, histVars>>

\* lines 133-142: insert_city_info has returned or raised
AfterInsert ==
    /\ pc = "returned"
    /\ IF call.raised = "none"
       THEN /\ successes' = successes + 1
            /\ total' = total + 1
            /\ failures' = failures
            /\ pc' = "next"
       ELSE Handle(call.raised)
    /\ UNCHANGED <<storeVars, fetchVars, histVars>>

Running == pc \notin {"done", "aborted"}

SkipInvalidCountedAsFailure ==
    /\ Running
    /\ nextRef <= NumRefs
    /\ nextRef' = nextRef + 1
    /\ skipped' = skipped + 1
    /\ total' = total + 1
    /\ failures' = failures + 1
    /\ UNCHANGED <<storeVars, pc, successes, inflight, queue, errors, histVars>>

\* lines 89-90: the generator reaches a li valid_tag rejects
SkipInvalid ==
    /\ Running
    /\ nextRef <= NumRefs
    /\ nextRef' = nextRef + 1
    /\ skipped' = skipped + 1
    /\ UNCHANGED <<storeVars, pc, counters, inflight, queue, errors, histVars>>

PoolHasRoomBatchThenWait ==
    /\ Cardinality(inflight) < BatchSize
    /\ inflight = {} \/ nextRef <= BatchSize

PoolHasRoomUnbounded == TRUE

\* line 92: the pool of imap runs at most `size` requests
PoolHasRoom == Cardinality(inflight) < BatchSize

\* lines 89-92: the request of the next valid li is sent
Issue ==
    /\ Running
    /\ nextRef <= NumRefs
    /\ PoolHasRoom
    /\ inflight' = inflight \cup {nextRef}
    /\ nextRef' = nextRef + 1
    /\ UNCHANGED <<storeVars, pc, counters, queue, errors, skipped, histVars>>

\* how a request can end: a 2xx page with details, a 2xx page get_city_details
\* finds nothing in (None), a 2xx page it raises on, a non-2xx response, or
\* no response at all (connection error, timeout)
Kinds == {"details", "none", "garbled", "http", "transport"}

CompleteInSubmissionOrder ==
    /\ Running
    /\ \E i \in inflight, kind \in Kinds :
          /\ inflight' = inflight \ {i}
          /\ queue' = LET r == [ref |-> i, kind |-> kind]
                          before == SelectSeq(queue, LAMBDA q : q.ref < i)
                          after == SelectSeq(queue, LAMBDA q : q.ref > i)
                      IN  before \o <<r>> \o after
    /\ UNCHANGED <<storeVars, pc, counters, nextRef, errors, skipped, histVars>>

\* a request ends: imap queues what ended in the order it ended
Complete ==
    /\ Running
    /\ \E i \in inflight, kind \in Kinds :
          /\ inflight' = inflight \ {i}
          /\ queue' = Append(queue, [ref |-> i, kind |-> kind])
    /\ UNCHANGED <<storeVars, pc, counters, nextRef, errors, skipped, histVars>>

ExceptionHandlerReturnsError == "error"

\* lines 94-96: _exception_handler logs and returns nothing
ExceptionHandlerResult == None

\* lines 92-96: imap meets a request without response and calls
\* _exception_handler; imap yields the handler's result unless it is None,
\* and the loop body then fails on it (it is no response)
HandleRequestException ==
    /\ pc = "next"
    /\ queue # <<>>
    /\ Head(queue).kind = "transport"
    /\ queue' = Tail(queue)
    /\ errors' = errors + 1
    /\ IF ExceptionHandlerResult = None
       THEN UNCHANGED <<pc, counters, yielded>>
       ELSE Handle("AttributeError") /\ yielded' = yielded + 1
    /\ UNCHANGED <<storeVars, nextRef, inflight, skipped, empties, returnedOk>>

\* lines 123-125, 105: raise_for_status raises HTTPError
HttpError ==
    /\ pc = "next"
    /\ queue # <<>>
    /\ Head(queue).kind = "http"
    /\ queue' = Tail(queue)
    /\ Handle("HTTPError")
    /\ yielded' = yielded + 1
    /\ UNCHANGED <<storeVars, nextRef, inflight, errors, skipped, empties, returnedOk>>

\* lines 107, 125: get_city_details raises
ExtractionError ==
    /\ pc = "next"
    /\ queue # <<>>
    /\ Head(queue).kind = "garbled"
    /\ queue' = Tail(queue)
    /\ Handle("ExtractionError")
    /\ yielded' = yielded + 1
    /\ UNCHANGED <<storeVars, nextRef, inflight, errors, skipped, empties, returnedOk>>

EmptyDetailsAsFailure ==
    /\ pc = "next"
    /\ queue # <<>>
    /\ Head(queue).kind = "none"
    /\ queue' = Tail(queue)
    /\ total' = total + 1
    /\ failures' = failures + 1
    /\ yielded' = yielded + 1
    /\ empties' = empties + 1
    /\ UNCHANGED <<storeVars, pc, successes, nextRef, inflight, errors, skipped, returnedOk>>

\* lines 128-130, 142: get_city_details returns None
EmptyDetails ==
    /\ pc = "next"
    /\ queue # <<>>
    /\ Head(queue).kind = "none"
    /\ queue' = Tail(queue)
    /\ total' = total + 1
    /\ yielded' = yielded + 1
    /\ empties' = empties + 1
    /\ UNCHANGED <<storeVars, pc, successes, failures, nextRef, inflight, errors, skipped,
                   returnedOk>>

StoreDetailsOverlapping ==
    /\ pc \in {"next", "persist"}
    /\ queue # <<>>
    /\ Head(queue).kind = "details"
    /\ queue' = Tail(queue)
    /\ \E details \in PageRecords : StartInsert(details)
    /\ yielded' = yielded + 1
    /\ UNCHANGED <<counters, nextRef, inflight, errors, skipped, empties, returnedOk>>

\* lines 125-133: get_city_details returns the details of a city
StoreDetails ==
    /\ pc = "next"
    /\ queue # <<>>
    /\ Head(queue).kind = "details"
    /\ queue' = Tail(queue)
    /\ \E details \in PageRecords : StartInsert(details)
    /\ yielded' = yielded + 1
    /\ UNCHANGED <<counters, nextRef, inflight, errors, skipped, empties, returnedOk>>

\* lines 123, 144: imap is exhausted, the loop ends
Finish ==
    /\ pc = "next"
    /\ queue = <<>>
    /\ inflight = {}
    /\ nextRef > NumRefs
    /\ pc' = "done"
    /\ UNCHANGED <<storeVars, counters, fetchVars, histVars>>

Next ==
    \/ SkipInvalid
    \/ Issue
    \/ Complete
    \/ HandleRequestException
    \/ HttpError
    \/ ExtractionError
    \/ EmptyDetails
    \/ StoreDetails
    \/ InsertCityInfoStep
    \/ InsertRelationshipsStep
    \/ StorageOutage
    \/ AfterInsert
    \/ Finish

Spec == Init /\ [][Next]_vars

\* a single writer calls insert_city_info with any details, MaxCalls times
Call ==
    /\ pc = "next"
    /\ total < MaxCalls
    /\ \E details \in Records : StartInsert(details)
    /\ UNCHANGED <<counters, fetchVars, histVars>>

NextStore ==
    \/ Call
    \/ InsertCityInfoStep
    \/ InsertRelationshipsStep
    \/ StorageOutage
    \/ AfterInsert

SpecStore == Init /\ [][NextStore]_vars

(***************************************************************************)
(* Properties                                                              *)
(***************************************************************************)
StepOf(name) == CHOOSE k \in 1..Len(Steps) : Steps[k] = name

\* the call has run the statement `name` to its end
Ran(name) == call.details # <<>> /\ call.step > StepOf(name)

\* the call has run every statement of insert_city_info
RanAll == call.details # <<>> /\ call.step > Len(Steps)

CallEnded == pc = "returned"

RowsNamed(table, name) == {r \in db[table] : r.name = name}

C2_BoundedConcurrency == Cardinality(inflight) <= BatchSize

C2_Witness ==
    /\ Cardinality(inflight) = BatchSize
    /\ nextRef <= NumRefs

C5_KeyUniqueness ==
    \A table \in {"continents", "countries", "cities"} :
        \A r1, r2 \in db[table] : r1.name = r2.name => r1 = r2

C5_Witness ==
    /\ CallEnded /\ RanAll
    /\ beforeRec = <<Lisbon>> /\ call.details = <<Porto>>
    /\ successes = 1
    /\ Cardinality(RowsNamed("countries", "Portugal")) = 1
    /\ Cardinality(RowsNamed("cities", "Porto")) = 1

\* the city_attributes rows of (city, attribute of tab)
ValueRows(city, tab, attribute) ==
    {v \in db.city_attributes :
        \E c \in RowsNamed("cities", city), t \in RowsNamed("tabs", tab),
           a \in RowsNamed("attributes", attribute) :
            a.id_tab = t.id /\ v.id_city = c.id /\ v.id_attribute = a.id}

\* the tab `tab` of the call's details is stored as the details give it
TabStored(tab, tab_info) ==
    \A i \in 1..Len(tab_info) :
        LET info == tab_info[i][2]
            rows == ValueRows(call.details[1].city, tab, tab_info[i][1])
        IN  info # <<>> =>
              /\ Cardinality(rows) = 1
              /\ \A v \in rows :
                    /\ v.description = info[1]
                    /\ v.attribute_value = info[2]
                    /\ v.url = (IF Len(info) > 2 THEN info[3] ELSE None)

\* C6: once a tab of the details is stored, each (city, attribute) it names
\* has exactly one city_attributes row, holding the description, value and
\* url of these details, whatever an earlier call stored there.
C6_LastWriteWins ==
    /\ Ran("Scores") => TabStored("Scores", call.details[1].Scores)
    /\ Ran("Digital Nomad Guide")
          => TabStored("Digital Nomad Guide", call.details[1].DigitalNomadGuide)
    /\ Ran("Cost of Living") => TabStored("Cost of Living", call.details[1].CostOfLiving)

C6_Witness ==
    /\ CallEnded /\ RanAll
    /\ beforeRec = <<Lisbon>> /\ call.details = <<LisbonFun9>>
    /\ successes = 1
    /\ \E v \in ValueRows("Lisbon", "Scores", "Fun") : v.attribute_value = 9

Listed(details, type, name) == name \in Range(details[types[type + 1]])

\* C7: after _insert_relationships, every name listed under a type has one
\* cities row (a bare one if the name was unknown) and one edge of that type
\* from the city; the call adds no edge the details do not list; no edge is
\* ever stored twice.
C7_RelationshipResolution ==
    /\ \A e1, e2 \in db.cities_relationships :
          (e1.id_city = e2.id_city /\ e1.id_related_city = e2.id_related_city
               /\ e1.type = e2.type) => e1 = e2
    /\ RanAll =>
         LET details == call.details[1]
             id_city == call.ids.id_city
         IN  /\ \A type \in 0..(Len(types) - 1) :
                   \A name \in Range(details[types[type + 1]]) :
                      /\ Cardinality(RowsNamed("cities", name)) = 1
                      /\ \A c \in RowsNamed("cities", name) :
                            /\ Cardinality({e \in db.cities_relationships :
                                   /\ e.id_city = id_city
                                   /\ e.id_related_city = c.id
                                   /\ e.type = type}) = 1
                            /\ (name # details.city
                                  /\ \A b \in beforeDb.cities : b.name # name)
                                  => (c.city_rank = NullId /\ c.id_country = NullId)
             /\ \A e \in db.cities_relationships :
                   <<"cities_relationships", e.id>> \in written =>
                      /\ e.id_city = id_city
                      /\ \E c \in db.cities :
                            c.id = e.id_related_city /\ Listed(details, e.type, c.name)

C7_Witness ==
    /\ CallEnded /\ RanAll
    /\ beforeRec = <<>> /\ call.details = <<Lisbon>>
    /\ \E c \in RowsNamed("cities", "Porto") :
          /\ c.city_rank = NullId
          /\ \E e \in db.cities_relationships :
                e.id_city = call.ids.id_city /\ e.id_related_city = c.id /\ e.type = 0

\* details b is details a with the info of one attribute of Scores changed
OneScoreChanged(a, b) ==
    /\ a # b
    /\ Len(a.Scores) = Len(b.Scores)
    /\ \E i \in 1..Len(a.Scores) :
          b = [a EXCEPT !.Scores[i] = <<a.Scores[i][1], b.Scores[i][2]>>]

ChangedScore(a, b) ==
    a.Scores[CHOOSE i \in 1..Len(a.Scores) : a.Scores[i] # b.Scores[i]][1]

\* C8: a call whose details differ from those of the call before in one
\* attribute of Scores changes no row but the city_attributes row of that
\* (city, attribute): no row is inserted, deleted or changed elsewhere, and
\* _upsert_and_get_id issues no UPDATE.
C8_UpdateOnChangeFrame ==
    (pc \in {"persist", "returned"} /\ beforeRec # <<>>
        /\ OneScoreChanged(beforeRec[1], call.details[1]))
    => LET target == {<<"city_attributes", v.id>> :
                        v \in ValueRows(call.details[1].city, "Scores",
                                        ChangedScore(beforeRec[1], call.details[1]))}
       IN  /\ Changed(beforeDb, db) \subseteq target
           /\ written \subseteq target
           /\ \A t \in Tables : {r.id : r \in beforeDb[t]} = {r.id : r \in db[t]}
           /\ nUpdates = 0

C8_Witness ==
    /\ CallEnded /\ RanAll
    /\ beforeRec = <<Lisbon>> /\ call.details = <<LisbonFun9>>
    /\ successes = 1
    /\ Cardinality(written) = 1
    /\ Changed(beforeDb, db) = written

\* the loop body leaves with an exception
HandlingRaises ==
    \/ /\ pc = "next" /\ queue # <<>> /\ queue' = Tail(queue)
       /\ Head(queue).kind \in {"http", "garbled"}
    \/ pc = "returned" /\ pc' # "returned" /\ call.raised # "none"

\* C9: when the handling of a result raises (a non-2xx status, an extraction
\* error, any exception of insert_city_info), failures grows by one,
\* successes does not, total grows by one and the loop goes on; a call that
\* raised writes nothing more; the loop ends only when every result yielded
\* has been handled.
C9_FailuresCounted ==
    [][/\ HandlingRaises
          => /\ failures' = failures + 1
             /\ successes' = successes
             /\ total' = total + 1
             /\ pc' = "next"
             /\ db' = db
       /\ call.raised # "none" => db' = db
       /\ pc' = "done"
          => /\ queue' = <<>> /\ inflight' = {}
             /\ total' + skipped' + errors' = NumRefs]_vars

\* two calls for Braga, no outage: the first raised too, and the loop went on
C9_Witness ==
    /\ pc = "done" /\ dbUp
    /\ call.raised = "AttributeError"
    /\ beforeRec = <<Braga>> /\ call.details = <<Braga>>
    /\ failures >= 2 /\ total = NumRefs

\* C10: when get_city_details returns None, insert_city_info is not called,
\* successes and failures keep their values and total grows by one.
C10_EmptySkippedButCounted ==
    [][(pc = "next" /\ queue # <<>> /\ queue' = Tail(queue)
          /\ Head(queue).kind = "none")
          => /\ total' = total + 1
             /\ successes' = successes
             /\ failures' = failures
             /\ pc' = "next"
             /\ UNCHANGED storeVars]_vars

C10_Witness ==
    /\ pc = "next"
    /\ total = 2 /\ successes = 1 /\ failures = 0
    /\ call.raised = "none" /\ call.details # <<>>

\* C11: a li that valid_tag rejects gets no request and reaches none of total,
\* successes, failures; a li that passes gets exactly one request: the
\* generator moves on one li at a time, a request enters the pool only for the
\* li the generator is at, and every li looked at so far is either rejected or
\* has one request that is in flight, completed and waiting, dropped by the
\* exception handler or yielded to the loop.
C11_PreCheckFiltering ==
    [][/\ skipped' # skipped
          => /\ skipped' = skipped + 1
             /\ nextRef' = nextRef + 1
             /\ nextRef \notin inflight'
             /\ UNCHANGED <<inflight, queue, counters, errors, yielded>>
       /\ nextRef' # nextRef
          => /\ nextRef' = nextRef + 1
             /\ \/ skipped' = skipped + 1
                \/ /\ skipped' = skipped
                   /\ nextRef \notin inflight
                   /\ inflight' = inflight \cup {nextRef}
       /\ inflight' \subseteq inflight \cup {nextRef}
       /\ nextRef \in inflight' => nextRef' = nextRef + 1
       /\ \A i \in 1..Len(queue') : queue'[i].ref \notin inflight'
       /\ (nextRef' - 1) - skipped'
             = Cardinality(inflight') + Len(queue') + errors' + yielded']_vars

\* one li was rejected, the two others were fetched and stored
C11_Witness ==
    /\ pc = "done"
    /\ skipped = 1
    /\ total = NumRefs - 1
    /\ successes = NumRefs - 1

\* C12: insert_city_info calls never overlap.  A call starts only when the loop
\* is between two results; while a call runs, it stays the call of the same
\* details and its statements only advance; it ends by raising or after its
\* last statement; and the store is written by the running call only.  All
\* this while requests are in flight and results wait.
C12_SerializedPersistence ==
    [][/\ (pc' = "persist" /\ pc # "persist") => pc = "next"
       /\ pc = "persist"
          => /\ pc' \in {"persist", "returned"}
             /\ call'.details = call.details
             /\ call'.step >= call.step
             /\ <<beforeRec, beforeDb>>' = <<beforeRec, beforeDb>>
             /\ pc' = "persist" => yielded' = yielded
             /\ pc' = "returned"
                => call'.raised # "none" \/ call'.step > Len(Steps)
       /\ pc = "returned" => call' = call /\ db' = db
       /\ db' # db
          => /\ pc = "persist"
             /\ written' = written \cup Changed(db, db')]_vars

\* a call is past its first statements while a request is in flight and the
\* details of another city wait
C12_Witness ==
    /\ pc = "persist"
    /\ call.step > StepOf("cities")
    /\ inflight # {}
    /\ queue # <<>>
    /\ queue[1].kind = "details"

\* a call of insert_city_info has raised at its statement call.step
CallFailed == pc \in {"returned", "next"} /\ call.raised # "none"

\* C13 as stated: after a call has raised, every row the store held before the
\* call is as it was.
C13_EarlierRowsUnchanged ==
    CallFailed => \A t \in Tables : beforeDb[t] \subseteq db[t]

\* After a call has raised at statement k, no row is removed, every row that
\* statements 1..k-1 wrote is in the store, and the rows the store held before
\* the call are unchanged except those that statements 1..k-1 upserted.
StoreAfterFailure ==
    CallFailed
    => /\ call.step <= Len(Steps)
       /\ written = Changed(beforeDb, db)
       /\ \A t \in Tables : \A r \in beforeDb[t] :
             /\ \E q \in db[t] : q.id = r.id
             /\ <<t, r.id>> \notin written => r \in db[t]

\* C13 (amended): the statement that raises leaves the store as statements
\* 1..k-1 committed it (nothing is rolled back), StoreAfterFailure holds from
\* then on, and the loop counts the call as one failure without touching the
\* store.
C13_PartialPersistence ==
    [][/\ (pc = "persist" /\ pc' = "returned" /\ call'.raised # "none")
          => /\ db' = db
             /\ written' = written
             /\ call'.step = call.step
       /\ StoreAfterFailure'
       /\ (pc = "returned" /\ call.raised # "none" /\ pc' # "returned")
          => /\ failures' = failures + 1
             /\ successes' = successes
             /\ total' = total + 1
             /\ db' = db]_vars

\* Braga raised at pros_and_cons after Funchal: its photo is stored, and the
\* country row first stored for Funchal has the continent Braga names
C13_Witness ==
    /\ pc = "next" /\ dbUp
    /\ call.raised = "AttributeError"
    /\ call.details = <<Braga>> /\ beforeRec = <<Funchal>>
    /\ \E r \in db["photos"] : r.src = "c.jpg"
    /\ beforeDb["countries"] # db["countries"]
    /\ failures = 1

\* C14: results reach the loop in the order their requests ended.  A result
\* is queued when its request leaves the pool, behind every result that ended
\* before; the loop is given the oldest queued result, once; no request is
\* both in flight and queued; and a response that is taken from the queue is
\* yielded to the loop body, which stores it or counts it.
C14_CompletionOrder ==
    [][/\ queue' # queue
          => \/ \E i \in inflight :
                  /\ inflight' = inflight \ {i}
                  /\ Len(queue') = Len(queue) + 1
                  /\ SubSeq(queue', 1, Len(queue)) = queue
                  /\ queue'[Len(queue')].ref = i
             \/ /\ queue # <<>>
                /\ queue' = Tail(queue)
                /\ inflight' = inflight
                /\ Head(queue).kind # "transport"
                   => /\ yielded' = yielded + 1
                      /\ pc' = "persist" \/ total' = total + 1
       /\ yielded' # yielded => queue # <<>> /\ queue' = Tail(queue)
       /\ \A i, j \in 1..Len(queue') :
             /\ queue'[i].ref \notin inflight'
             /\ i # j => queue'[i].ref # queue'[j].ref]_vars

\* the request of the first li is still in flight when the result of a later
\* li has been handled and another waits
C14_Witness ==
    /\ nextRef > NumRefs
    /\ skipped = 0
    /\ \E i \in inflight : \A q \in Range(queue) : i < q.ref
    /\ queue # <<>>
    /\ total >= 1
    /\ successes >= 1

\* the statements of insert_city_info that call _upsert_and_get_id, the
\* values_dict each passes and the id each keeps
UpsertSteps == {"continents", "countries", "cities"}

UpsertValues(name, ids, details) ==
    CASE name = "continents" -> [name |-> details.continent]
      [] name = "countries" ->
            [name |-> details.country, id_continent |-> ids.id_continent]
      [] name = "cities" ->
            [name |-> details.city, city_rank |-> details.rank,
             id_country |-> ids.id_country]

UpsertId(name, ids) ==
    CASE name = "continents" -> ids.id_continent
      [] name = "countries" -> ids.id_country
      [] name = "cities" -> ids.id_city

C16_SlidingWindow ==
    (Running /\ nextRef <= NumRefs /\ Cardinality(inflight) < BatchSize)
    => ENABLED Issue

\* a request of the first `size` lis is in flight together with one of a
\* later li
C16_Witness ==
    /\ skipped = 0
    /\ NumRefs > BatchSize
    /\ \E i, j \in inflight : i <= BatchSize /\ j > BatchSize

\* the order C17 gives: region, country, entity, the three key/value blocks,
\* photos, pros/cons, reviews, weather, relationships
PersistOrder ==
    <<"continents", "countries", "cities", "Scores", "Digital Nomad Guide",
      "Cost of Living", "photos", "pros_and_cons", "reviews", "weather",
      "relationships">>

\* the tables each step writes
TablesOf(name) ==
    CASE name \in {"continents", "countries", "cities", "photos", "pros_and_cons",
                   "reviews"} -> {name}
      [] name \in {"Scores", "Digital Nomad Guide", "Cost of Living"} ->
            {"tabs", "attributes", "city_attributes"}
      [] name = "weather" -> {"tabs", "attributes", "monthly_weathers_attributes"}
      [] name = "relationships" -> {"cities", "cities_relationships"}

\* the tables whose rows belong to a city
DependentTables ==
    {"city_attributes", "monthly_weathers_attributes", "photos", "pros_and_cons",
     "reviews", "cities_relationships"}

HasId(table, id) == \E r \in db[table] : r.id = id

\* every reference of a stored row is the id of a stored row
ReferencesExist ==
    /\ \A r \in db["countries"] : HasId("continents", r.id_continent)
    /\ \A r \in db["cities"] :
          r.id_country = NullId \/ HasId("countries", r.id_country)
    /\ \A r \in db["attributes"] : HasId("tabs", r.id_tab)
    /\ \A t \in DependentTables : \A r \in db[t] : HasId("cities", r.id_city)
    /\ \A r \in db["city_attributes"] \cup db["monthly_weathers_attributes"] :
          HasId("attributes", r.id_attribute)
    /\ \A r \in db["cities_relationships"] : HasId("cities", r.id_related_city)

\* C17: the k-th statement insert_city_info runs is the k-th step of
\* PersistOrder and writes the tables of that step only; the country row is
\* written with the id the continent upsert returned, the city row with the id
\* the country upsert returned, every row of a dependent table with the id the
\* city upsert returned, each that of a row stored before the step; so every
\* reference of a stored row is the id of a stored row, after every step.
C17_FixedStepOrder ==
    [][/\ (pc = "persist" /\ call'.step = call.step + 1)
          => LET name == PersistOrder[call.step]
                 details == call.details[1]
             IN  /\ Steps[call.step] = name
                 /\ \A t \in Tables : db'[t] # db[t] => t \in TablesOf(name)
                 /\ name = "countries"
                    => \E c \in db["continents"], r \in db'["countries"] :
                          /\ c.name = details.continent
                          /\ c.id = call.ids.id_continent
                          /\ r.name = details.country
                          /\ r.id_continent = c.id
                          /\ r.id = call'.ids.id_country
                 /\ name = "cities"
                    => \E c \in db["countries"], r \in db'["cities"] :
                          /\ c.name = details.country
                          /\ c.id = call.ids.id_country
                          /\ r.name = details.city
                          /\ r.id_country = c.id
                          /\ r.id = call'.ids.id_city
                 /\ \A t \in DependentTables : \A r \in db'[t] \ db[t] :
                       \E c \in db["cities"] :
                          /\ c.name = details.city
                          /\ c.id = call.ids.id_city
                          /\ r.id_city = c.id
       /\ ReferencesExist']_vars

\* Lisbon went through every step and wrote attribute values, monthly
\* weather and relationships
C17_Witness ==
    /\ pc = "returned" /\ call.raised = "none"
    /\ call.details = <<Lisbon>>
    /\ call.step > Len(Steps)
    /\ db["city_attributes"] # {}
    /\ db["monthly_weathers_attributes"] # {}
    /\ db["cities_relationships"] # {}

\* the name-only rows of a city, as _insert_relationships creates them
BareRows(d, n) ==
    {r \in d["cities"] : r.name = n /\ r.city_rank = NullId /\ r.id_country = NullId}

\* C18: insert_city_info is called for a city n that the store holds as a
\* name-only row.  Once the cities statement has run there is one row named
\* n, it has the id of the name-only row, the rank of the details and the id
\* of the country the details name; and every relationship that had the
\* name-only row as related city is still stored, with the same id.
C18_BareEntityFilledInPlace ==
    (pc \in {"persist", "returned"} /\ call.step > StepOf("cities"))
    => LET details == call.details[1]
       IN  \A b \in BareRows(beforeDb, details.city) :
              /\ \E c \in db["countries"] :
                    /\ c.name = details.country
                    /\ RowsNamed("cities", details.city)
                          = {[id |-> b.id, name |-> details.city,
                              city_rank |-> details.rank, id_country |-> c.id]}
              /\ \A e \in beforeDb["cities_relationships"] :
                    e.id_related_city = b.id => e \in db["cities_relationships"]

\* Lisbon listed Porto as near and similar, then Porto was stored
C18_Witness ==
    /\ pc = "returned" /\ call.raised = "none"
    /\ beforeRec = <<Lisbon>> /\ call.details = <<Porto>>
    /\ \E b \in BareRows(beforeDb, "Porto") :
          /\ Cardinality({e \in beforeDb["cities_relationships"] :
                             e.id_related_city = b.id}) = 2
          /\ \E r \in db["cities"] : r.id = b.id /\ r.city_rank = Porto.rank

\* the loop body is between two results (or the loop has ended)
BetweenResults == pc \in {"next", "done"}

\* C19: whenever the loop body has finished with a result, total is successes
\* plus failures plus the results whose details were None, total is the
\* number of results imap has yielded, and successes is the number of
\* insert_city_info calls that returned without raising; while a result is
\* being stored it is yielded but not yet counted.
C19_CounterInvariant ==
    /\ BetweenResults
       => /\ total = successes + failures + empties
          /\ total = yielded
          /\ successes = returnedOk
    /\ pc \in {"persist", "returned"}
       => /\ total = successes + failures + empties
          /\ total + 1 = yielded
          /\ successes + (IF pc = "returned" /\ call.raised = "none" THEN 1 ELSE 0)
                = returnedOk

\* the run ended with one city stored, one call that raised and one page
\* without details
C19_Witness ==
    /\ pc = "done"
    /\ total = NumRefs
    /\ successes = 1 /\ failures = 1 /\ empties = 1
    /\ returnedOk = 1

\* _insert_relationships is about to run for details that list no city under
\* Near, Next or Similar, the server being up
NoRelatedAtRelationships ==
    /\ call.details # <<>>
    /\ RelatedNames(call.details[1]) = {}
    /\ call.step = Len(Steps)
    /\ dbUp

\* C20: for details that list no related city, _insert_relationships returns
\* without raising and writes no cities row and no relationship, and the loop
\* counts the city as a success.
C20_NoRelatedPersistsCleanly ==
    [][/\ (pc = "persist" /\ NoRelatedAtRelationships /\ pc' = "returned")
          => /\ call'.raised = "none"
             /\ db'["cities"] = db["cities"]
             /\ db'["cities_relationships"] = db["cities_relationships"]
       /\ (pc = "returned" /\ NoRelatedAtRelationships /\ pc' = "next")
          => /\ successes' = successes + 1
             /\ failures' = failures]_vars

\* What the code does for such details: the SELECT of _insert_relationships
\* raises, nothing is written by it, and the loop counts a failure.
C20_NoRelatedRaises ==
    [][/\ (pc = "persist" /\ NoRelatedAtRelationships /\ pc' = "returned")
          => /\ call'.raised = "ProgrammingError"
             /\ db' = db
       /\ (pc = "returned" /\ NoRelatedAtRelationships /\ pc' = "next")
          => /\ successes' = successes
             /\ failures' = failures + 1]_vars

\* Faro, which lists no related city, went through every statement before
\* _insert_relationships and was counted as a failure
C20_Witness ==
    /\ pc = "next" /\ dbUp
    /\ call.details = <<Faro>>
    /\ call.step = Len(Steps)
    /\ call.raised = "ProgrammingError"
    /\ RowsNamed("cities", "Faro") # {}
    /\ failures = 1 /\ successes = 0

\* the rows of cities that hold a rank and a country
KnownRows(d, n) ==
    {r \in d["cities"] : r.name = n /\ r.city_rank # NullId /\ r.id_country # NullId}

\* C21: _insert_relationships runs for details that list a city n the store
\* holds with rank and country.  The row of n stays as it is and stays the
\* only row named n; the statement writes cities and cities_relationships
\* only, removes no row of either, and every cities row it adds is a name-only
\* row of a listed city.
C21_KnownTargetUntouched ==
    [][(pc = "persist" /\ call.step = Len(Steps) /\ call'.step = call.step + 1)
          => LET details == call.details[1]
             IN  /\ \A n \in RelatedNames(details) : \A r \in KnownRows(db, n) :
                       {q \in db'["cities"] : q.name = n} = {r}
                 /\ db["cities"] \subseteq db'["cities"]
                 /\ \A r \in db'["cities"] \ db["cities"] :
                       /\ r.name \in RelatedNames(details)
                       /\ r.city_rank = NullId /\ r.id_country = NullId
                 /\ db["cities_relationships"] \subseteq db'["cities_relationships"]
                 /\ \A t \in Tables \ {"cities", "cities_relationships"} :
                       db'[t] = db[t]]_vars

\* Porto lists Lisbon, which was stored before: the row of Lisbon is as it
\* was and Porto has relationships to it
C21_Witness ==
    /\ pc = "returned" /\ call.raised = "none"
    /\ beforeRec = <<Lisbon>> /\ call.details = <<Porto>>
    /\ \E r \in KnownRows(beforeDb, "Lisbon") :
          /\ RowsNamed("cities", "Lisbon") = {r}
          /\ r.city_rank = Lisbon.rank
          /\ \E e \in db["cities_relationships"] \ beforeDb["cities_relationships"] :
                e.id_related_city = r.id

\* the key/value tabs and the block of the details each is given
KeyValueSteps == {"Scores", "Digital Nomad Guide", "Cost of Living"}

TabInfoOf(tab, details) ==
    CASE tab = "Scores" -> details.Scores
      [] tab = "Digital Nomad Guide" -> details.DigitalNomadGuide
      [] tab = "Cost of Living" -> details.CostOfLiving

\* the city_attributes row v is the value of an attribute of `tab` that
\* tab_info names, in the tables d
ValueOfNamed(d, v, tab, tab_info) ==
    \E a \in d["attributes"], t \in d["tabs"] :
        /\ a.id = v.id_attribute
        /\ a.id_tab = t.id
        /\ t.name = tab
        /\ Get(tab_info, a.name) # <<>>

\* C22: _upsert_key_value_tab_info(id_city, tab, tab_info).  Every
\* city_attributes row it adds or changes is a row of id_city for an attribute
\* of the tab that tab_info names; each such attribute has its row afterwards;
\* every other row (of another city, or of id_city for an attribute tab_info
\* does not name, whatever attributes the tab has from earlier calls) is as it
\* was, and no row is removed.
C22_ValuesOnlyForNamedAttributes ==
    [][(pc = "persist" /\ call'.step = call.step + 1
          /\ Steps[call.step] \in KeyValueSteps)
          => LET tab == Steps[call.step]
                 tab_info == TabInfoOf(tab, call.details[1])
                 id_city == call.ids.id_city
                 old == db["city_attributes"]
                 new == db'["city_attributes"]
             IN  /\ \A v \in new \ old :
                       v.id_city = id_city /\ ValueOfNamed(db', v, tab, tab_info)
                 /\ \A v \in old :
                       /\ \E w \in new : w.id = v.id
                       /\ (v.id_city # id_city \/ ~ValueOfNamed(db', v, tab, tab_info))
                          => v \in new
                 /\ \A i \in 1..Len(tab_info) :
                       tab_info[i][2] # <<>>
                       => \E v \in new :
                             v.id_city = id_city /\ ValueOfNamed(db', v, tab, tab_info)
                             /\ \E a \in db'["attributes"] :
                                   a.id = v.id_attribute /\ a.name = tab_info[i][1]]_vars

\* Lisbon was stored with Fun and Cost under Scores, Porto with Safety and
\* Fun, then Lisbon again with Fun only: the tab has three attributes, Porto
\* has no value for Cost, and the value of Cost first stored for Lisbon is
\* still there
C22_Witness ==
    /\ pc = "persist"
    /\ beforeRec = <<Porto>> /\ call.details = <<LisbonFunOnly>>
    /\ call.step = StepOf("Scores") + 1
    /\ Cardinality({a \in db["attributes"] :
                       \E t \in RowsNamed("tabs", "Scores") : a.id_tab = t.id}) = 3
    /\ ValueRows("Porto", "Scores", "Safety") # {}
    /\ ValueRows("Porto", "Scores", "Cost") = {}
    /\ \E v \in ValueRows("Lisbon", "Scores", "Cost") : v.attribute_value = 5

\* C23: countries is keyed by name alone.  Once the countries statement of a
\* call has run, there is one row of the country the details name, its
\* id_continent is the id of the continent these details name (whatever
\* continent an earlier call gave it), its id is the one it had before the
\* call if it was stored before, and no continents row is removed: the
\* continent of the earlier call is still stored.
C23_CountryParentLastWriteWins ==
    (pc \in {"persist", "returned"} /\ call.step > StepOf("countries"))
    => LET details == call.details[1]
       IN  /\ \E k \in RowsNamed("countries", details.country),
                  c \in RowsNamed("continents", details.continent) :
                    /\ RowsNamed("countries", details.country) = {k}
                    /\ RowsNamed("continents", details.continent) = {c}
                    /\ k.id_continent = c.id
                    /\ k.id = call.ids.id_country
                    /\ \A b \in beforeDb["countries"] :
                          b.name = details.country => b.id = k.id
           /\ beforeDb["continents"] \subseteq db["continents"]

\* Lisbon (Portugal in Europe), then Funchal (Portugal in Africa): one row
\* of Portugal, with the id it had, now under Africa; Europe is still stored
C23_Witness ==
    /\ pc = "returned" /\ call.raised = "none"
    /\ beforeRec = <<Lisbon>> /\ call.details = <<Funchal>>
    /\ \E k \in db["countries"], b \in beforeDb["countries"],
          eu \in RowsNamed("continents", "Europe"),
          af \in RowsNamed("continents", "Africa") :
            /\ k.name = "Portugal" /\ b.name = "Portugal"
            /\ k.id = b.id
            /\ b.id_continent = eu.id
            /\ k.id_continent = af.id
            /\ eu.id # af.id
    /\ Cardinality(db["countries"]) = 1

====
